---- MODULE Spec2Model ----
(***************************************************************************)
(* The URL-preview codec of ruma-events (room/message/url_preview.rs):     *)
(* the serde-derived Serialize / Deserialize of UrlPreview, PreviewImage   *)
(* and PreviewImageSource, the constructors, and contains_preview.         *)
(*                                                                         *)
(* A wire object is a JSON object: a sequence of entries (key, value) with *)
(* distinct keys, in the order in which the deserializer hands them to the *)
(* derived visitor (text order for serde_json::from_str, key order for     *)
(* serde_json::from_value over the default sorted Map).                    *)
(***************************************************************************)
EXTENDS Integers, Sequences, FiniteSets, TLC

VARIABLES pc, value, wire, decoded, answer

vars == <<pc, value, wire, decoded, answer>>

(***************************************************************************)
(* Bounds of the model.                                                    *)
(***************************************************************************)
\* The largest number of keys of an externally produced wire object.
MaxKeys == 3

\* The strings used for URLs, titles, descriptions, mimetypes and MXC URIs.
Strs == {"a", "b"}

\* The unsigned integers used for size, width and height.
Nums == {1, 2}

\* The (opaque) EncryptedFile values.
Files == {"f1"}

(***************************************************************************)
(* Option<T>: None or Some(x).                                             *)
(***************************************************************************)
None == <<>>

Some(x) == <<x>>

is_some(o) == o # None

is_none(o) == o = None

Unwrap(o) == o[1]

OptionOf(S) == {None} \cup {Some(x) : x \in S}

(***************************************************************************)
(* Result<T, Error> of a deserialization.                                  *)
(***************************************************************************)
Ok(v) == [ok |-> TRUE, value |-> Some(v), err |-> ""]

Err(kind) == [ok |-> FALSE, value |-> None, err |-> kind]

(***************************************************************************)
(* JSON values.  An "object" value stands for a nested JSON object: one    *)
(* that is the encoding of the EncryptedFile s (s \in Files), or one that  *)
(* fails EncryptedFile's structural validation (s = "malformed").          *)
(***************************************************************************)
JNull == [t |-> "null", s |-> "", n |-> 0]

JStr(x) == [t |-> "string", s |-> x, n |-> 0]

JNum(k) == [t |-> "number", s |-> "", n |-> k]

JObj(f) == [t |-> "object", s |-> f, n |-> 0]

Entry(k, v) == [key |-> k, val |-> v]

Keys(obj) == {obj[i].key : i \in 1..Len(obj)}

HasKey(obj, k) == k \in Keys(obj)

Get(obj, k) == (CHOOSE i \in 1..Len(obj) : obj[i].key = k)

ValueAt(obj, k) == obj[Get(obj, k)].val

(***************************************************************************)
(* The key names of the serde attributes.                                  *)
(***************************************************************************)
\* PreviewImageSource::EncryptedImage, #[serde(rename = ...)]
EncryptedImageName == "beeper:image:encryption"

\* PreviewImageSource::Url, #[serde(rename = ..., alias = ...)]
UrlName == "og:image"

UrlAlias == "og:image:url"

\* PreviewImage::size, #[serde(rename = ..., alias = ...)]
SizeName == "matrix:image:size"

SizeAlias == "og:image:size"

WidthName == "og:image:width"

HeightName == "og:image:height"

MimetypeName == "og:image:type"

\* UrlPreview::matched_url carries no rename: its name is the field's name,
\* and #[serde(alias = "matrix:matched_url")] adds a second accepted key.
MatchedUrlName == "matched_url"

MatchedUrlAlias == "matrix:matched_url"

CanonicalUrlName == "og:url"

TitleName == "og:title"

DescriptionName == "og:description"

(***************************************************************************)
(* The values: PreviewImageSource, PreviewImage, UrlPreview.               *)
(***************************************************************************)
EncryptedImage(f) == [variant |-> "EncryptedImage", file |-> f, url |-> ""]

Url(u) == [variant |-> "Url", file |-> "", url |-> u]

PreviewImageSources == {EncryptedImage(f) : f \in Files} \cup {Url(u) : u \in Strs}

\* PreviewImage::with_image
PreviewImage_with_image(source) ==
    [source |-> source, size |-> None, width |-> None, height |-> None,
     mimetype |-> None]

\* PreviewImage::plain
PreviewImage_plain(url) == PreviewImage_with_image(Url(url))

\* PreviewImage::encrypted
PreviewImage_encrypted(file) == PreviewImage_with_image(EncryptedImage(file))

\* UrlPreview::matched_url
UrlPreview_matched_url(matched_url) ==
    [matched_url |-> Some(matched_url), url |-> None, image |-> None,
     description |-> None, title |-> None]

\* UrlPreview::canonical_url
UrlPreview_canonical_url(url) ==
    [matched_url |-> None, url |-> Some(url), image |-> None,
     description |-> None, title |-> None]

\* A mutant of contains_preview: the image is not looked at.
contains_preview_without_image(self) ==
    \/ is_some(self.url)
    \/ is_some(self.title)
    \/ is_some(self.description)

\* UrlPreview::contains_preview
contains_preview(self) ==
    \/ is_some(self.url)
    \/ is_some(self.title)
    \/ is_some(self.description)
    \/ is_some(self.image)
    \/ is_some(self.image)

(***************************************************************************)
(* Serialize.  Both structs hold a #[serde(flatten)] field, so each is     *)
(* written as a map, entry by entry in declaration order; the flattened    *)
(* field writes its own entries into the same map.                         *)
(***************************************************************************)
ToJson(kind, x) ==
    CASE kind = "string" -> JStr(x)
      [] kind = "number" -> JNum(x)
      [] kind = "file"   -> JObj(x)

\* A field without skip_serializing_if: an Option that is None is written
\* as the key with a null value.
SerializeEntry(key, o, kind) ==
    <<Entry(key, IF is_none(o) THEN JNull ELSE ToJson(kind, Unwrap(o)))>>

\* A field with skip_serializing_if = "Option::is_none".
SkipIfNone(key, o, kind) ==
    IF is_none(o) THEN <<>> ELSE SerializeEntry(key, o, kind)

\* A mutant of SerializePreviewImageSource: an encrypted source also writes
\* the plain key, with the file's own URL.
SerializePreviewImageSourceBoth(source) ==
    IF source.variant = "EncryptedImage"
    THEN <<Entry(EncryptedImageName, JObj(source.file)), Entry(UrlName, JStr(source.file))>>
    ELSE <<Entry(UrlName, JStr(source.url))>>

\* A mutant of SerializePreviewImageSource: the plain source is written under
\* a key no variant of the enum is named by.
SerializePreviewImageSourceSrc(source) ==
    IF source.variant = "EncryptedImage"
    THEN <<Entry(EncryptedImageName, JObj(source.file))>>
    ELSE <<Entry("og:image:src", JStr(source.url))>>

\* The externally tagged newtype variant, flattened: one entry, keyed by the
\* variant's (renamed) name.
SerializePreviewImageSource(source) ==
    IF source.variant = "EncryptedImage"
    THEN <<Entry(EncryptedImageName, JObj(source.file))>>
    ELSE <<Entry(UrlName, JStr(source.url))>>

SerializePreviewImage(image) ==
    SerializePreviewImageSource(image.source)
    \o SkipIfNone(SizeName, image.size, "number")
    \o SkipIfNone(WidthName, image.width, "number")
    \o SkipIfNone(HeightName, image.height, "number")
    \o SkipIfNone(MimetypeName, image.mimetype, "string")

\* #[serde(flatten, skip_serializing_if = "Option::is_none")] image
SerializeFlattenedImage(image) ==
    IF is_none(image) THEN <<>> ELSE SerializePreviewImage(Unwrap(image))

SerializeUrlPreview(self) ==
    SerializeEntry(MatchedUrlName, self.matched_url, "string")
    \o SkipIfNone(CanonicalUrlName, self.url, "string")
    \o SkipIfNone(TitleName, self.title, "string")
    \o SkipIfNone(DescriptionName, self.description, "string")
    \o SerializeFlattenedImage(self.image)

(***************************************************************************)
(* Deserialize: the field types.                                           *)
(***************************************************************************)
\* Option<String> (kind "string") and Option<UInt> (kind "number"): a null
\* is None, a value of the type is Some, anything else is an error.
DeserializeOption(kind, jv) ==
    IF jv.t = "null" THEN Ok(None)
    ELSE IF jv.t = kind
         THEN Ok(Some(IF kind = "number" THEN jv.n ELSE jv.s))
         ELSE Err("invalid_type")

\* OwnedMxcUri: any string, unvalidated.
DeserializeMxcUri(jv) ==
    IF jv.t = "string" THEN Ok(jv.s) ELSE Err("invalid_type")

\* EncryptedFile: an object that passes its own structural validation.
DeserializeEncryptedFile(jv) ==
    IF jv.t # "object" THEN Err("invalid_type")
    ELSE IF jv.s \in Files THEN Ok(jv.s) ELSE Err("malformed")

(***************************************************************************)
(* Deserialize: PreviewImageSource, flattened into PreviewImage.           *)
(*                                                                         *)
(* The derived impl calls deserialize_enum(name, VARIANTS, visitor).  On   *)
(* flattened data serde walks the collected entries in their order and     *)
(* hands the first one whose key is in VARIANTS to the visitor; the other  *)
(* entries are left alone.  Whether VARIANTS lists the alias of a variant  *)
(* beside its name depends on the serde_derive the crate is built with     *)
(* (it lists names only before 1.0.211, names and aliases from then on),   *)
(* so `listed` is a choice of the build.                                   *)
(***************************************************************************)
VARIANTS(listed) ==
    IF listed THEN {EncryptedImageName, UrlName, UrlAlias}
    ELSE {EncryptedImageName, UrlName}

\* The visitor of the variant identifier and of its newtype content.
VisitEnum(entry) ==
    IF entry.key = EncryptedImageName
    THEN LET r == DeserializeEncryptedFile(entry.val)
         IN  IF r.ok THEN Ok(EncryptedImage(Unwrap(r.value))) ELSE r
    ELSE LET r == DeserializeMxcUri(entry.val)
         IN  IF r.ok THEN Ok(Url(Unwrap(r.value))) ELSE r

Recognized(entries, listed) ==
    {i \in 1..Len(entries) : entries[i].key \in VARIANTS(listed)}

First(S) == CHOOSE i \in S : \A j \in S : i <= j

DeserializePreviewImageSource(entries, listed) ==
    LET rec == Recognized(entries, listed)
    IN  IF rec = {} THEN Err("no_variant") ELSE VisitEnum(entries[First(rec)])

(***************************************************************************)
(* Deserialize: the derived visit_map of a struct with a flattened field.  *)
(* Each entry's key is matched against the names and aliases of the        *)
(* struct's own fields; an entry of a field that already holds a value is  *)
(* a duplicate_field error; every other entry is collected for the         *)
(* flattened field.                                                        *)
(***************************************************************************)
Fields(struct) ==
    IF struct = "UrlPreview"
    THEN {"matched_url", "url", "title", "description"}
    ELSE {"size", "width", "height", "mimetype"}

Field(struct, key) ==
    IF struct = "UrlPreview"
    THEN CASE key \in {MatchedUrlName, MatchedUrlAlias} -> "matched_url"
           [] key = CanonicalUrlName -> "url"
           [] key = TitleName -> "title"
           [] key = DescriptionName -> "description"
           [] OTHER -> "__other"
    ELSE CASE key \in {SizeName, SizeAlias} -> "size"
           [] key = WidthName -> "width"
           [] key = HeightName -> "height"
           [] key = MimetypeName -> "mimetype"
           [] OTHER -> "__other"

Kind(field) ==
    IF field \in {"size", "width", "height"} THEN "number" ELSE "string"

NewVisit(struct) ==
    [slots |-> [f \in Fields(struct) |-> None], collect |-> <<>>, err |-> ""]

RECURSIVE VisitMap(_, _, _, _)
VisitMap(struct, obj, i, acc) ==
    IF i > Len(obj) THEN acc
    ELSE LET field == Field(struct, obj[i].key)
         IN  IF field = "__other"
             THEN VisitMap(struct, obj, i + 1,
                           [acc EXCEPT !.collect = Append(@, obj[i])])
             ELSE IF is_some(acc.slots[field])
             THEN [acc EXCEPT !.err = "duplicate_field"]
             ELSE LET r == DeserializeOption(Kind(field), obj[i].val)
                  IN  IF r.ok
                      THEN VisitMap(struct, obj, i + 1,
                                    [acc EXCEPT !.slots[field] = r.value])
                      ELSE [acc EXCEPT !.err = r.err]

\* A mutant of MissingField: a field without an entry is an error.
MissingFieldRequired(slot) ==
    IF is_some(slot) THEN Ok(Unwrap(slot)) ELSE Err("missing_field")

\* serde's missing_field for a field no entry gave a value: an Option field
\* (every field here is one) becomes None.
MissingField(slot) ==
    IF is_some(slot) THEN Ok(Unwrap(slot)) ELSE Ok(None)

DeserializePreviewImage(entries, listed) ==
    LET acc == VisitMap("PreviewImage", entries, 1, NewVisit("PreviewImage"))
        size == MissingField(acc.slots["size"])
        width == MissingField(acc.slots["width"])
        height == MissingField(acc.slots["height"])
        mimetype == MissingField(acc.slots["mimetype"])
        source == DeserializePreviewImageSource(acc.collect, listed)
    IN  IF acc.err # "" THEN Err(acc.err)
        ELSE IF ~size.ok THEN size
        ELSE IF ~width.ok THEN width
        ELSE IF ~height.ok THEN height
        ELSE IF ~mimetype.ok THEN mimetype
        ELSE IF ~source.ok THEN source
        ELSE Ok([source |-> Unwrap(source.value),
                 size |-> Unwrap(size.value),
                 width |-> Unwrap(width.value),
                 height |-> Unwrap(height.value),
                 mimetype |-> Unwrap(mimetype.value)])

\* A flattened Option<T>: serde deserializes T from the collected entries and
\* turns any error into None (T::deserialize(..).ok()).
FlattenOption(r) ==
    IF r.ok THEN Ok(r.value) ELSE Ok(None)

DeserializeUrlPreview(obj, listed) ==
    LET acc == VisitMap("UrlPreview", obj, 1, NewVisit("UrlPreview"))
        matched_url == MissingField(acc.slots["matched_url"])
        url == MissingField(acc.slots["url"])
        title == MissingField(acc.slots["title"])
        description == MissingField(acc.slots["description"])
        image == FlattenOption(DeserializePreviewImage(acc.collect, listed))
    IN  IF acc.err # "" THEN Err(acc.err)
        ELSE IF ~matched_url.ok THEN matched_url
        ELSE IF ~url.ok THEN url
        ELSE IF ~title.ok THEN title
        ELSE IF ~description.ok THEN description
        ELSE IF ~image.ok THEN image
        ELSE Ok([matched_url |-> Unwrap(matched_url.value),
                 url |-> Unwrap(url.value),
                 title |-> Unwrap(title.value),
                 description |-> Unwrap(description.value),
                 image |-> Unwrap(image.value)])

(***************************************************************************)
(* The wire objects a peer can send: at most MaxKeys of the keys below,    *)
(* each with a value of the field's type, a null or a value of another     *)
(* type.  KeyTable is in the order of serde_json's default (sorted) Map,   *)
(* the order from_value meets; from_str meets the order of the text.       *)
(***************************************************************************)
\* A key neither struct knows.
UnknownName == "x:unknown"

KeyTable ==
    <<EncryptedImageName, MatchedUrlName, SizeName, MatchedUrlAlias,
      DescriptionName, UrlName, HeightName, SizeAlias, MimetypeName,
      UrlAlias, WidthName, TitleName, CanonicalUrlName, UnknownName>>

ValuesFor(key) ==
    CASE key = EncryptedImageName ->
            {JObj(f) : f \in Files} \cup {JObj("malformed"), JNull, JStr("a")}
      [] key \in {SizeName, SizeAlias, WidthName, HeightName} ->
            {JNum(n) : n \in Nums} \cup {JNull, JStr("a")}
      [] OTHER ->
            {JStr(x) : x \in Strs} \cup {JNull, JNum(1)}

RECURSIVE ObjectsOver(_, _)
ObjectsOver(S, from) ==
    IF from > Len(KeyTable) THEN {<<>>}
    ELSE IF from \in S
         THEN {<<Entry(KeyTable[from], v)>> \o rest :
                  v \in ValuesFor(KeyTable[from]), rest \in ObjectsOver(S, from + 1)}
         ELSE ObjectsOver(S, from + 1)

Reverse(seq) == [i \in 1..Len(seq) |-> seq[Len(seq) + 1 - i]]

\* The derived visitors match a struct's own fields by key, whatever the
\* order of the entries; the order decides only which of several
\* image-source entries the enum takes.  An object with two or more of them
\* is therefore sent in both orders.
SourceKeys(obj) == Keys(obj) \cap {EncryptedImageName, UrlName, UrlAlias}

KeySets == {T \in SUBSET (1..Len(KeyTable)) : Cardinality(T) <= MaxKeys}

Orders(obj) ==
    IF Cardinality(SourceKeys(obj)) >= 2 THEN {obj, Reverse(obj)} ELSE {obj}

(***************************************************************************)
(* The state machine.  pc is the stage of a preview: none yet ("start"),   *)
(* a value built by the constructors and field assignments ("value"), its  *)
(* encoding on the wire ("encoded", "image_encoded"), the outcome of a     *)
(* decode ("decoded") and the answer of contains_preview ("asked_*").      *)
(***************************************************************************)
Init ==
    /\ pc = "start"
    /\ value = None
    /\ wire = <<>>
    /\ decoded = None
    /\ answer = None

\* UrlPreview::matched_url(matched_url)
NewMatchedUrl ==
    /\ pc = "start"
    /\ \E s \in Strs : value' = Some(UrlPreview_matched_url(s))
    /\ pc' = "value"
    /\ UNCHANGED <<wire, decoded, answer>>

\* UrlPreview::canonical_url(url)
NewCanonicalUrl ==
    /\ pc = "start"
    /\ \E s \in Strs : value' = Some(UrlPreview_canonical_url(s))
    /\ pc' = "value"
    /\ UNCHANGED <<wire, decoded, answer>>

\* An assignment to one of the pub fields matched_url, url, title,
\* description of the UrlPreview.
AssignText ==
    /\ pc = "value"
    /\ \E f \in Fields("UrlPreview"), o \in OptionOf(Strs) :
          value' = Some([Unwrap(value) EXCEPT ![f] = o])
    /\ UNCHANGED <<pc, wire, decoded, answer>>

\* An assignment to the pub field image: None, PreviewImage::plain(url) or
\* PreviewImage::encrypted(file).
AssignImage ==
    /\ pc = "value"
    /\ \E o \in {None} \cup {Some(PreviewImage_plain(u)) : u \in Strs}
                  \cup {Some(PreviewImage_encrypted(f)) : f \in Files} :
          value' = Some([Unwrap(value) EXCEPT !.image = o])
    /\ UNCHANGED <<pc, wire, decoded, answer>>

\* An assignment to one of the pub fields size, width, height, mimetype of
\* the image.
AssignImageMeta ==
    /\ pc = "value"
    /\ is_some(Unwrap(value).image)
    /\ \E f \in Fields("PreviewImage") :
          \E o \in OptionOf(IF Kind(f) = "number" THEN Nums ELSE Strs) :
             value' = Some([Unwrap(value) EXCEPT
                               !.image = Some([Unwrap(@) EXCEPT ![f] = o])])
    /\ UNCHANGED <<pc, wire, decoded, answer>>

\* to_value(&preview)
Serialize ==
    /\ pc = "value"
    /\ wire' = SerializeUrlPreview(Unwrap(value))
    /\ pc' = "encoded"
    /\ UNCHANGED <<value, decoded, answer>>

\* to_value(&preview.image), the PreviewImage on its own
SerializeImage ==
    /\ pc = "value"
    /\ is_some(Unwrap(value).image)
    /\ wire' = SerializePreviewImage(Unwrap(Unwrap(value).image))
    /\ pc' = "image_encoded"
    /\ UNCHANGED <<value, decoded, answer>>

\* from_value::<UrlPreview>(obj)
FromValue(obj) ==
    /\ \E listed \in BOOLEAN :
          decoded' = Some(DeserializeUrlPreview(obj, listed))
    /\ wire' = obj
    /\ pc' = "decoded"
    /\ UNCHANGED <<value, answer>>

\* The decode of the object just encoded, or of an object a peer sent.
Deserialize ==
    \/ /\ pc = "encoded"
       /\ FromValue(wire)
    \/ /\ pc = "start"
       /\ \E S \in KeySets : \E sorted \in ObjectsOver(S, 1) :
             \E obj \in Orders(sorted) : FromValue(obj)

\* preview.contains_preview(), of the value built or of the value decoded
ContainsPreview ==
    \/ /\ pc = "value"
       /\ answer' = Some(contains_preview(Unwrap(value)))
       /\ pc' = "asked_value"
       /\ UNCHANGED <<value, wire, decoded>>
    \/ /\ pc = "decoded"
       /\ Unwrap(decoded).ok
       /\ answer' = Some(contains_preview(Unwrap(Unwrap(decoded).value)))
       /\ pc' = "asked_decoded"
       /\ UNCHANGED <<value, wire, decoded>>

Next ==
    \/ NewMatchedUrl
    \/ NewCanonicalUrl
    \/ AssignText
    \/ AssignImage
    \/ AssignImageMeta
    \/ Serialize
    \/ SerializeImage
    \/ Deserialize
    \/ ContainsPreview

Spec == Init /\ [][Next]_vars

(***************************************************************************)
(* What the claims speak of.                                               *)
(***************************************************************************)
Built == Unwrap(value)

Outcome == Unwrap(decoded)

Decoded == Unwrap(Outcome.value)

\* The decode of an object a peer sent (no value was built before it).
Received == pc \in {"decoded", "asked_decoded"} /\ is_none(value)

\* The value of the entry is one the field's declared type takes.
Coercible(key, val) ==
    CASE key = EncryptedImageName -> val.t = "object" /\ val.s \in Files
      [] key \in {UrlName, UrlAlias} -> val.t = "string"
      [] key \in {SizeName, SizeAlias, WidthName, HeightName} ->
            val.t \in {"number", "null"}
      [] key = UnknownName -> TRUE
      [] OTHER -> val.t \in {"string", "null"}

AllCoercible(obj) == \A i \in 1..Len(obj) : Coercible(obj[i].key, obj[i].val)

\* Two accepted spellings of one logical field are both present.
Ambiguous(obj) ==
    \/ {MatchedUrlName, MatchedUrlAlias} \subseteq Keys(obj)
    \/ {SizeName, SizeAlias} \subseteq Keys(obj)
    \/ {UrlName, UrlAlias} \subseteq Keys(obj)

\* C1: contains_preview answers FALSE (the homeserver is to be asked) exactly
\* when url, title, description and image are all None, whatever matched_url
\* is; a value built by UrlPreview::matched_url alone, or decoded from an
\* object holding only the matched-url key, always gets the answer FALSE.
C1_FallbackDecision ==
    pc \in {"asked_value", "asked_decoded"} =>
        LET v == IF pc = "asked_value" THEN Built ELSE Decoded
            ask == ~Unwrap(answer)
        IN  /\ ask <=> /\ is_none(v.url)
                       /\ is_none(v.title)
                       /\ is_none(v.description)
                       /\ is_none(v.image)
            /\ (\E s \in Strs : v = UrlPreview_matched_url(s)) => ask
            /\ (pc = "asked_decoded" /\ wire # <<>>
                /\ Keys(wire) \subseteq {MatchedUrlName, MatchedUrlAlias}) => ask
            /\ \A o \in OptionOf(Strs) :
                  contains_preview([v EXCEPT !.matched_url = o]) = Unwrap(answer)

\* C1 witness: an object holding only the matched-url key was decoded and
\* asked, and the answer is to ask the homeserver.
C1_Witness ==
    /\ pc = "asked_decoded"
    /\ wire = <<Entry(MatchedUrlAlias, JStr("a"))>>
    /\ Decoded.matched_url = Some("a")
    /\ answer = Some(FALSE)

\* C2: round trip: decoding the object that encoding a value produced
\* succeeds and yields that value, field by field, source variant included.
C2_RoundTrip ==
    (pc = "decoded" /\ is_some(value)) =>
        /\ wire = SerializeUrlPreview(Built)
        /\ Outcome.ok
        /\ Decoded = Built

\* C2 witness: a value without matched_url, with an encrypted image that has
\* a size and a mimetype, went through encode and decode.
C2_Witness ==
    /\ pc = "decoded"
    /\ is_some(value)
    /\ is_none(Built.matched_url)
    /\ is_some(Built.title)
    /\ is_some(Built.image)
    /\ Unwrap(Built.image).source.variant = "EncryptedImage"
    /\ is_some(Unwrap(Built.image).size)
    /\ is_some(Unwrap(Built.image).mimetype)
    /\ is_none(Unwrap(Built.image).width)

\* C3: omission (the claim as stated): a field that is None has no key in
\* the encoded object, and no entry of the encoded object is a null.
C3_Omission ==
    pc = "encoded" =>
        /\ is_none(Built.matched_url) =>
              Keys(wire) \cap {MatchedUrlName, MatchedUrlAlias} = {}
        /\ is_none(Built.url) => ~HasKey(wire, CanonicalUrlName)
        /\ is_none(Built.title) => ~HasKey(wire, TitleName)
        /\ is_none(Built.description) => ~HasKey(wire, DescriptionName)
        /\ is_none(Built.image) =>
              Keys(wire) \cap {EncryptedImageName, UrlName, UrlAlias, SizeName,
                               SizeAlias, WidthName, HeightName, MimetypeName} = {}
        /\ is_some(Built.image) =>
              LET image == Unwrap(Built.image)
              IN  /\ is_none(image.size) => Keys(wire) \cap {SizeName, SizeAlias} = {}
                  /\ is_none(image.width) => ~HasKey(wire, WidthName)
                  /\ is_none(image.height) => ~HasKey(wire, HeightName)
                  /\ is_none(image.mimetype) => ~HasKey(wire, MimetypeName)
        /\ \A i \in 1..Len(wire) : wire[i].val # JNull

\* C4: variant exclusivity: an encoded object never holds both the plain key
\* and the encrypted key; PreviewImage::plain encodes to the plain key alone
\* and PreviewImage::encrypted to the encrypted key alone.
C4_VariantExclusivity ==
    pc \in {"encoded", "image_encoded"} =>
        /\ ~(HasKey(wire, EncryptedImageName)
             /\ Keys(wire) \cap {UrlName, UrlAlias} # {})
        /\ is_some(Built.image) =>
              LET image == Unwrap(Built.image)
              IN  /\ image.source.variant = "Url" <=> HasKey(wire, UrlName)
                  /\ image.source.variant = "EncryptedImage"
                        <=> HasKey(wire, EncryptedImageName)
                  /\ ~HasKey(wire, UrlAlias)
        /\ pc = "image_encoded" =>
              /\ \A u \in Strs : Built.image = Some(PreviewImage_plain(u)) =>
                    wire = <<Entry(UrlName, JStr(u))>>
              /\ \A f \in Files : Built.image = Some(PreviewImage_encrypted(f)) =>
                    wire = <<Entry(EncryptedImageName, JObj(f))>>

\* C4 witness: an image built by PreviewImage::encrypted was encoded on its
\* own.
C4_Witness ==
    /\ pc = "image_encoded"
    /\ Built.image = Some(PreviewImage_encrypted("f1"))
    /\ Keys(wire) = {EncryptedImageName}

NoMatchedUrlKey(obj) == Keys(obj) \cap {MatchedUrlName, MatchedUrlAlias} = {}

\* The object without the entry of key k.
Without(obj, k) == SelectSeq(obj, LAMBDA e : e.key # k)

C6_InvalidValueFails ==
    (pc = "decoded" /\ ~AllCoercible(wire)) => ~Outcome.ok

\* The entries the claim's key table expects for a value.
CanonicalEntry(key, o, kind) ==
    IF is_none(o) THEN {} ELSE {Entry(key, ToJson(kind, Unwrap(o)))}

CanonicalImageEntries(image) ==
    (IF image.source.variant = "Url"
     THEN {Entry("og:image", JStr(image.source.url))}
     ELSE {Entry(EncryptedImageName, JObj(image.source.file))})
    \cup CanonicalEntry("matrix:image:size", image.size, "number")
    \cup CanonicalEntry("og:image:width", image.width, "number")
    \cup CanonicalEntry("og:image:height", image.height, "number")
    \cup CanonicalEntry("og:image:type", image.mimetype, "string")

CanonicalEntries(v) ==
    CanonicalEntry("matrix:matched_url", v.matched_url, "string")
    \cup CanonicalEntry("og:url", v.url, "string")
    \cup CanonicalEntry("og:title", v.title, "string")
    \cup CanonicalEntry("og:description", v.description, "string")
    \cup (IF is_none(v.image) THEN {} ELSE CanonicalImageEntries(Unwrap(v.image)))

\* C7 (the claim as stated): every present field is encoded under its one
\* canonical key (the matched URL under matrix:matched_url), and the encoded
\* object holds no other key.
C7_CanonicalKeys ==
    pc = "encoded" =>
        /\ {wire[i] : i \in 1..Len(wire)} = CanonicalEntries(Built)
        /\ Len(wire) = Cardinality(CanonicalEntries(Built))

\* The key with a legacy spelling replaced by the field's own name.
CanonicalKey(key) ==
    CASE key = UrlAlias -> UrlName
      [] key = SizeAlias -> SizeName
      [] key = MatchedUrlAlias -> MatchedUrlName
      [] OTHER -> key

Canonical(obj) ==
    [i \in 1..Len(obj) |-> Entry(CanonicalKey(obj[i].key), obj[i].val)]

UsesLegacy(obj) ==
    /\ Keys(obj) \cap {UrlAlias, SizeAlias, MatchedUrlAlias} # {}
    /\ ~Ambiguous(obj)

\* C8 (the claim as stated): an object that spells a field the legacy way
\* decodes to what the same object with the other spelling decodes to.
C8_AliasAcceptance ==
    (pc = "decoded" /\ Received /\ UsesLegacy(wire)) =>
        \A listed \in BOOLEAN :
           Outcome = DeserializeUrlPreview(Canonical(wire), listed)

\* C9 (the claim as stated): an object with a valid encrypted key and the
\* plain key decodes, in either order of the two, to an image of the
\* encrypted source.
C9_EncryptedWins ==
    (/\ pc = "decoded"
     /\ {EncryptedImageName, UrlName} \subseteq Keys(wire)
     /\ AllCoercible(wire)
     /\ ~Ambiguous(wire)) =>
        /\ Outcome.ok
        /\ is_some(Decoded.image)
        /\ Unwrap(Decoded.image).source
              = EncryptedImage(ValueAt(wire, EncryptedImageName).s)

FromJson(val) ==
    IF val.t = "null" THEN None
    ELSE Some(IF val.t = "number" THEN val.n ELSE val.s)

Differ(obj, k1, k2) ==
    /\ {k1, k2} \subseteq Keys(obj)
    /\ ValueAt(obj, k1).t # "null"
    /\ ValueAt(obj, k2).t # "null"
    /\ ValueAt(obj, k1) # ValueAt(obj, k2)

\* C10 (the claim as stated): an object with two spellings of one field and
\* different values decodes; the field holds the value of the first-listed
\* spelling, and neither the image nor another field is dropped.
C10_AliasAmbiguityResolved ==
    (pc = "decoded" /\ AllCoercible(wire)) =>
        /\ Differ(wire, MatchedUrlAlias, MatchedUrlName) =>
              /\ Outcome.ok
              /\ Decoded.matched_url = FromJson(ValueAt(wire, MatchedUrlAlias))
        /\ (Differ(wire, SizeName, SizeAlias) /\ SourceKeys(wire) # {}) =>
              /\ Outcome.ok
              /\ is_some(Decoded.image)
              /\ Unwrap(Decoded.image).size = FromJson(ValueAt(wire, SizeName))
        /\ (Differ(wire, UrlName, UrlAlias) /\ ~HasKey(wire, EncryptedImageName)) =>
              /\ Outcome.ok
              /\ is_some(Decoded.image)
              /\ Unwrap(Decoded.image).source = Url(ValueAt(wire, UrlName).s)

====
